---------------------------- MODULE Spec2Model ----------------------------
(***************************************************************************)
(* A model of tonie-skipper: the Ogg/Opus page re-framer (audio.py), the   *)
(* compose engine, the command entry points of tonie/__init__.py and the   *)
(* stand-alone skip.py script.                                             *)
(*                                                                         *)
(* Representation.  A segment is [id, len, head]: len is its byte count    *)
(* (0..255), head the explicit leading bytes of the packet it starts (the  *)
(* TOC byte, the frame-count byte, the next byte, any padding-length bytes)*)
(* and id names the opaque payload it carries, so that dropped, duplicated *)
(* or reordered packets can be told apart.  A packet is a sequence of      *)
(* segments, a page a header (info) plus a flat sequence of segments, as   *)
(* in the source.  The header of a page lives in a heap (infos) because    *)
(* the source shares one info list between several OggPage objects.        *)
(***************************************************************************)
EXTENDS Integers, Sequences, FiniteSets, TLC

\* ------------------------------------------------------------ constants
PAGE_SIZE == 4096

SAMPLE_RATE_KHZ == 48

\* Bounds of the model.
MaxPackets == 3

MaxAppends == 1

MaxList == 2

MaxDataLen == 260

MaxPadLen == 260

\* ------------------------------------------------------------- helpers
\* F applied to the value of v: v is evaluated once, whatever F does with it.
Let(v, F(_)) == CHOOSE r \in {F(x) : x \in {v}} : TRUE

Max(a, b) == IF a >= b THEN a ELSE b

Min(a, b) == IF a <= b THEN a ELSE b

Last(s) == s[Len(s)]

\* The loops over segments and packets are evaluated by halving the range
\* lo..hi, which gives the value of the left-to-right loop.
RECURSIVE FlatFrom(_, _, _)
FlatFrom(ss, lo, hi) ==
    IF lo > hi THEN <<>>
    ELSE IF lo = hi THEN ss[lo]
    ELSE FlatFrom(ss, lo, (lo + hi) \div 2) \o FlatFrom(ss, (lo + hi) \div 2 + 1, hi)

\* [s for p in packets for s in p]
Flat(ss) == Let(ss, LAMBDA v : FlatFrom(v, 1, Len(v)))

RECURSIVE SumLenFrom(_, _, _)
SumLenFrom(segs, lo, hi) ==
    IF lo > hi THEN 0
    ELSE IF lo = hi THEN segs[lo].len
    ELSE SumLenFrom(segs, lo, (lo + hi) \div 2) + SumLenFrom(segs, (lo + hi) \div 2 + 1, hi)

\* sum(len(s) for s in segments)
SumLen(segs) == Let(segs, LAMBDA v : SumLenFrom(v, 1, Len(v)))

RECURSIVE Repeat(_, _)
Repeat(x, n) == IF n <= 0 THEN <<>> ELSE <<x>> \o Repeat(x, n - 1)

\* Python's range(a, b) as a sequence.
RangeSeq(a, b) == [i \in 1..Max(0, b - a) |-> a + i - 1]

\* The empty segment b"".
EmptySeg == [id |-> 0, len |-> 0, head |-> <<>>]

\* FRAME_DURATIONS[c] for c in 16..31, in 48 kHz samples.
FRAME_DURATIONS(c) ==
    CASE c % 4 = 0 -> (5 * SAMPLE_RATE_KHZ) \div 2
      [] c % 4 = 1 -> 5 * SAMPLE_RATE_KHZ
      [] c % 4 = 2 -> 10 * SAMPLE_RATE_KHZ
      [] OTHER     -> 20 * SAMPLE_RATE_KHZ

\* ------------------------------------------------------------- OggPage
\* OggPage.get_size over a segment list.
get_size(segments) == Let(segments, LAMBDA v : 27 + Len(v) + SumLen(v))

\* OggPage.get_opus_packets: a new packet starts after a segment shorter
\* than 255 bytes.
\* The packets of segments lo..hi, the segment lo taken as the start of
\* one: the packets of the right half follow those of the left half when the
\* left half ends with a segment shorter than 255 bytes (prev_len < 255),
\* and the first of them continues the last packet of the left half when it
\* does not.
RECURSIVE GroupFrom(_, _, _)
GroupFrom(segments, lo, hi) ==
    IF lo > hi THEN << <<>> >>
    ELSE IF lo = hi THEN << <<segments[lo]>> >>
    ELSE Let(GroupFrom(segments, lo, (lo + hi) \div 2), LAMBDA l :
         Let(GroupFrom(segments, (lo + hi) \div 2 + 1, hi), LAMBDA r :
             IF segments[(lo + hi) \div 2].len < 255 THEN l \o r
             ELSE [l EXCEPT ![Len(l)] = @ \o r[1]] \o Tail(r)))

get_opus_packets(segments) ==
    Let(segments, LAMBDA v : GroupFrom(v, 1, Len(v)))

\* OggPage.set_opus_packets: flatten, and close a trailing 255-byte segment
\* with an empty one.
set_opus_packets(packets) ==
    Let(packets, LAMBDA v :
        IF Last(Last(v)).len = 255 THEN Append(Flat(v), EmptySeg) ELSE Flat(v))

\* The value set_opus_packets returns.
missing_bytes(segments) == PAGE_SIZE - get_size(segments)

\* The duration of the packet a segment starts: err is "IndexError" when a
\* byte read is not there, "KeyError" when the config has no entry in
\* FRAME_DURATIONS.
PacketDuration(s) ==
    IF s.len < 1 \/ Len(s.head) < 1 THEN [err |-> "IndexError", duration |-> 0]
    ELSE LET config_value == s.head[1] \div 8
             framepacking == s.head[1] % 4
         IN IF framepacking = 3 /\ (s.len < 2 \/ Len(s.head) < 2)
            THEN [err |-> "IndexError", duration |-> 0]
            ELSE IF config_value < 16 THEN [err |-> "KeyError", duration |-> 0]
            ELSE [err |-> "ok",
                  duration |-> FRAME_DURATIONS(config_value) *
                                 (CASE framepacking = 0 -> 1
                                    [] framepacking = 1 -> 2
                                    [] framepacking = 2 -> 2
                                    [] OTHER -> s.head[2] % 64)]

\* OggPage.get_duration: the segments that follow one shorter than 255 bytes
\* start a packet.
\* The loop over segments lo..hi stops at the first error, with the duration
\* added up to there.
RECURSIVE DurationFrom(_, _, _)
DurationFrom(segments, lo, hi) ==
    IF lo > hi THEN [err |-> "ok", duration |-> 0]
    ELSE IF lo = hi
    THEN IF (IF lo = 1 THEN 0 ELSE segments[lo - 1].len) < 255
         THEN PacketDuration(segments[lo])
         ELSE [err |-> "ok", duration |-> 0]
    ELSE Let(DurationFrom(segments, lo, (lo + hi) \div 2), LAMBDA l :
             IF l.err # "ok" THEN l
             ELSE Let(DurationFrom(segments, (lo + hi) \div 2 + 1, hi), LAMBDA r :
                      [err |-> r.err, duration |-> l.duration + r.duration]))

get_duration(segments) == Let(segments, LAMBDA v : DurationFrom(v, 1, Len(v)))

\* ------------------------------------------------- repack and pad packets
\* data = [b for s in packet for b in s]: the explicit head of the first
\* segment, then rest opaque bytes, then zeros padding bytes.
FlattenPacket(packet) ==
    Let(packet, LAMBDA v :
        [id |-> v[1].id, head |-> v[1].head,
         rest |-> SumLen(v) - Len(v[1].head), zeros |-> 0])

DataLen(data) == Len(data.head) + data.rest + data.zeros

\* [bytes(data[i:i + 255]) for i in range(0, len(data), 255)]
Chunk(data) ==
    Let(data, LAMBDA v :
        [k \in 1..((DataLen(v) + 254) \div 255) |->
           [id |-> v.id,
            len |-> Min(255, DataLen(v) - 255 * (k - 1)),
            head |-> IF k = 1 THEN v.head ELSE <<>>]])

\* data[0] |= 3
OrThree(b) == (b \div 4) * 4 + 3

\* data[1] & 64 and data[1] |= 64
PaddingBit(b) == ((b \div 64) % 2) * 64

OrPadding(b) == IF PaddingBit(b) = 64 THEN b ELSE b + 64

\* repack_packet up to the re-segmentation: convert to framepacking code 3.
repack_data(data) ==
    LET framepacking == data.head[1] % 4
        frame_count_byte == CASE framepacking = 0 -> 1
                              [] framepacking = 1 -> 2
                              [] OTHER -> 2 + 128
    IN IF framepacking = 3 THEN [err |-> "ok", data |-> data]
       ELSE IF framepacking = 2 /\ ~(data.head[3] < 255)
       THEN [err |-> "AssertionError", data |-> data]
       ELSE [err |-> "ok",
             data |-> [data EXCEPT !.head =
                         <<OrThree(data.head[1]), frame_count_byte>> \o Tail(data.head)]]

repack_packet(packet) ==
    Let(packet, LAMBDA v :
        Let(repack_data(FlattenPacket(v)), LAMBDA r :
            [err |-> r.err, packet |-> IF r.err = "ok" THEN Chunk(r.data) ELSE v]))

\* The padding pad_packet adds for pad_len: the bytes after data[:2] and the
\* zero bytes at the end.
PadLengths(len_data, pad_len) ==
    LET last_seg_len == len_data % 255
        added_segs == (last_seg_len + pad_len) \div 255
        added_pads == (pad_len \div 255) + 1
        zero_count == IF last_seg_len + pad_len < 255
                      THEN pad_len - 1
                      ELSE pad_len - added_segs - added_pads
    IN [pad_lengths |-> Repeat(255, zero_count \div 255) \o <<zero_count % 255>>,
        padding |-> Max(0, zero_count)]

\* pad_packet up to the re-segmentation; is_none is pad_len is None.
pad_data(data, is_none, pad_len) ==
    IF data.head[1] % 4 # 3 THEN [err |-> "AssertionError", data |-> data]
    ELSE IF PaddingBit(data.head[2]) # 0 THEN [err |-> "AssertionError", data |-> data]
    ELSE IF is_none
    THEN [err |-> "ok",
          data |-> [data EXCEPT !.head =
                      <<data.head[1], OrPadding(data.head[2]), 0>> \o
                      SubSeq(data.head, 3, Len(data.head))]]
    ELSE Let(PadLengths(DataLen(data), pad_len), LAMBDA p :
             [err |-> "ok",
              data |-> [data EXCEPT
                          !.head = <<data.head[1], OrPadding(data.head[2])>> \o
                                   p.pad_lengths \o SubSeq(data.head, 3, Len(data.head)),
                          !.zeros = p.padding]])

pad_packet(packet, is_none, pad_len) ==
    Let(packet, LAMBDA v :
        Let(pad_data(FlattenPacket(v), is_none, pad_len), LAMBDA r :
            [err |-> r.err, packet |-> IF r.err = "ok" THEN Chunk(r.data) ELSE v]))

\* ------------------------------------------------------------- pad_page
\* pad_page(page, packets): the segments the page ends with, the packets
\* as mutated, the step (1..5) that reached missing_bytes = 0, and err:
\* "ok", or the exception that ends the call.
PadResult(err, step, packets) ==
    [err |-> err, step |-> step, packets |-> packets,
     segments |-> set_opus_packets(packets)]

SetLast(packets, packet) == [packets EXCEPT ![Len(packets)] = packet]

SetSecondLast(packets, packet) == [packets EXCEPT ![Len(packets) - 1] = packet]

\* audio.py 340-350: p5 holds the packets after the byte added to packets[-2].
PadStep5(p4, r5) ==
    IF r5.err # "ok" THEN PadResult(r5.err, 5, p4)
    ELSE Let(SetSecondLast(p4, r5.packet), LAMBDA p5 :
             IF missing_bytes(set_opus_packets(p5)) = 0
             THEN PadResult("ok", 5, p5)
             ELSE PadResult("AssertionError", 5, p5))

\* audio.py 335-338: p4 holds the packets after padding packets[-1].
PadStep4(p3, r4) ==
    IF r4.err # "ok" THEN PadResult(r4.err, 4, p3)
    ELSE Let(SetLast(p3, r4.packet), LAMBDA p4 :
         Let(missing_bytes(set_opus_packets(p4)), LAMBDA m4 :
             IF m4 = 0 THEN PadResult("ok", 4, p4)
             ELSE IF m4 # 1 THEN PadResult("AssertionError", 5, p4)
             ELSE Let(pad_packet(p4[Len(p4) - 1], TRUE, 0),
                      LAMBDA r5 : PadStep5(p4, r5))))

\* audio.py 330-333: p3 holds the packets after repacking packets[-2].
PadStep3(p2, r3) ==
    IF r3.err # "ok" THEN PadResult(r3.err, 3, p2)
    ELSE Let(SetSecondLast(p2, r3.packet), LAMBDA p3 :
         Let(missing_bytes(set_opus_packets(p3)), LAMBDA m3 :
             IF m3 = 0 THEN PadResult("ok", 3, p3)
             ELSE Let(pad_packet(Last(p3), FALSE, m3),
                      LAMBDA r4 : PadStep4(p3, r4))))

\* audio.py 325-328: p2 holds the packets after repacking packets[-1].
PadStep2(packets, r2) ==
    IF r2.err # "ok" THEN PadResult(r2.err, 2, packets)
    ELSE Let(SetLast(packets, r2.packet), LAMBDA p2 :
             IF missing_bytes(set_opus_packets(p2)) = 0 THEN PadResult("ok", 2, p2)
             ELSE IF Len(p2) < 2 THEN PadResult("IndexError", 3, p2)
             ELSE Let(repack_packet(p2[Len(p2) - 1]),
                      LAMBDA r3 : PadStep3(p2, r3)))

pad_page(packets) ==
    Let(packets, LAMBDA v :
        IF v = <<>>
        THEN [err |-> "IndexError", step |-> 1, packets |-> v, segments |-> <<>>]
        ELSE IF missing_bytes(set_opus_packets(v)) = 0 THEN PadResult("ok", 1, v)
        ELSE Let(repack_packet(Last(v)), LAMBDA r2 : PadStep2(v, r2)))

\* ------------------------------------------------------------- inputs
\* A complete Opus packet as OggPage.get_opus_packets hands it over: n data
\* bytes starting with the TOC byte toc and the bytes b1 and b2, cut into
\* 255-byte segments, with an empty closing segment when n is a multiple of
\* 255.
MkPacket(id, n, toc, b1, b2) ==
    LET data == [id |-> id, head |-> <<toc, b1, b2>>, rest |-> n - 3, zeros |-> 0]
    IN IF n % 255 = 0 THEN Append(Chunk(data), EmptySeg) ELSE Chunk(data)

\* TOC bytes: config 31 (20 ms frames) or 29 (5 ms frames), mono, plus the
\* framepacking code.
Toc(config, code) == config * 8 + code

\* The packets an incoming Opus file is made of: [n, toc, b1, b2].
PacketKinds ==
    { [n |-> 2013, toc |-> Toc(31, 3), b1 |-> 2,  b2 |-> 9],
      [n |-> 2026, toc |-> Toc(31, 0), b1 |-> 7,  b2 |-> 9],
      [n |-> 2027, toc |-> Toc(29, 1), b1 |-> 7,  b2 |-> 9],
      [n |-> 2039, toc |-> Toc(31, 0), b1 |-> 7,  b2 |-> 9],
      [n |-> 1990, toc |-> Toc(29, 2), b1 |-> 10, b2 |-> 9],
      [n |-> 4052, toc |-> Toc(31, 0), b1 |-> 7,  b2 |-> 9],
      [n |-> 1000, toc |-> Toc(31, 3), b1 |-> 65, b2 |-> 0] }

\* An incoming Ogg/Opus file as parse_ogg returns it: the two header pages,
\* then the packets of kinds ks, two to a page.  Packet number i of append
\* number a carries the payload id 1000 * a + i.
OpusPacketOf(a, i, k) == MkPacket(1000 * a + i, k.n, k.toc, k.b1, k.b2)

OpusHeaderPage(n) ==
    [page_no |-> n, segments |-> <<[id |-> 0, len |-> 19, head |-> <<79, 112, 117>>]>>]

OpusFile(a, ks) ==
    <<OpusHeaderPage(0), OpusHeaderPage(1)>> \o
    [p \in 1..((Len(ks) + 1) \div 2) |->
       [page_no |-> p + 1,
        segments |-> Flat([j \in 1..Min(2, Len(ks) - 2 * (p - 1)) |->
                             OpusPacketOf(a, 2 * (p - 1) + j, ks[2 * (p - 1) + j])])]]

KindSeqs == UNION {[1..n -> PacketKinds] : n \in 0..MaxPackets}

\* Incoming files made of a run of small packets: count packets of n bytes
\* in framepacking code 3 with one frame each, then one larger packet.
OpusRuns ==
    { [count |-> 255, n |-> 13, toc |-> Toc(31, 3), b1 |-> 1, b2 |-> 9],
      [count |-> 255, n |-> 15, toc |-> Toc(31, 3), b1 |-> 1, b2 |-> 9] }

\* The file of a run as parse_ogg returns it: the two header pages, one page
\* with the small packets (one segment each), one page with the last packet.
RunFile(a, run) ==
    <<OpusHeaderPage(0), OpusHeaderPage(1),
      [page_no |-> 2,
       segments |-> [i \in 1..run.count |->
                        MkPacket(1000 * a + i, run.n, run.toc, run.b1, run.b2)[1]]],
      [page_no |-> 3,
       segments |-> MkPacket(1000 * a + run.count + 1, 2026, Toc(31, 0), 7, 9)]>>

\* The files append_chapter is called with for append number a.
OpusFiles(a) ==
    {OpusFile(a, ks) : ks \in KindSeqs} \cup {RunFile(a, run) : run \in OpusRuns}

\* ----------------------------------------------------------- checksums
\* The bytes of a page that the model keeps, as numbers: the header fields,
\* the segment table, and per segment its payload id and explicit bytes.
RECURSIVE SegNumsFrom(_, _, _)
SegNumsFrom(segments, lo, hi) ==
    IF lo > hi THEN <<>>
    ELSE IF lo = hi THEN <<segments[lo].len, segments[lo].id>> \o segments[lo].head
    ELSE SegNumsFrom(segments, lo, (lo + hi) \div 2)
           \o SegNumsFrom(segments, (lo + hi) \div 2 + 1, hi)

SegNums(segments) == Let(segments, LAMBDA v : SegNumsFrom(v, 1, Len(v)))

\* OggPage.serialize
serialize(info, segments) ==
    Let(info, LAMBDA v :
        <<v.version, v.page_type, v.granule_position, v.serial_no,
          v.page_no, v.checksum, v.segment_count>> \o SegNums(segments))

HashMod == 181 * 256 + 1

RECURSIVE PowMod(_, _)
PowMod(b, k) ==
    IF k = 0 THEN 1
    ELSE Let(PowMod(b, k \div 2), LAMBDA h :
             IF k % 2 = 0 THEN (h * h) % HashMod ELSE (((h * h) % HashMod) * b) % HashMod)

\* The polynomial hash of nums[lo..hi]: the bytes folded in order.
RECURSIVE HashRange(_, _, _, _)
HashRange(mult, nums, lo, hi) ==
    IF lo > hi THEN 0
    ELSE IF lo = hi THEN nums[lo] % HashMod
    ELSE (HashRange(mult, nums, lo, (lo + hi) \div 2) * PowMod(mult, hi - (lo + hi) \div 2)
          + HashRange(mult, nums, (lo + hi) \div 2 + 1, hi)) % HashMod

\* crc32 over a serialized page, kept to 16 bits.
crc32(bytestream) == Let(bytestream, LAMBDA v : HashRange(31, v, 1, Len(v)))

\* hashlib.sha1: update folds the written bytes into the running digest, so
\* that updates with a and then b give the digest of a followed by b.
sha1_update(digest, data) ==
    Let(data, LAMBDA v :
        (((digest * PowMod(33, Len(v))) % HashMod) + HashRange(33, v, 1, Len(v))) % HashMod)

\* OggPage.update_checksum: the info with segment_count and checksum set.
update_checksum(info, segments) ==
    Let(segments, LAMBDA segs :
        Let([info EXCEPT !.segment_count = Len(segs), !.checksum = 0],
            LAMBDA zeroed :
                [zeroed EXCEPT !.checksum = crc32(serialize(zeroed, segs))]))

\* OggPage.serialize_with: the header and segments of the page written out.
serialize_with(info, segments, is_last, granule_position, page_num) ==
    Let(segments, LAMBDA segs :
        [info |-> update_checksum([info EXCEPT !.page_type = IF is_last THEN 4 ELSE 0,
                                               !.granule_position = granule_position,
                                               !.page_no = page_num], segs),
         segments |-> segs])

\* --------------------------------------------------------- source files
SrcAudioPages == 3

Timestamp == 7 * 11

\* A full audio page of a tonie file: two packets, 4096 bytes.
FullPagePackets(k) ==
    <<MkPacket(100 * k + 1, 2026, Toc(31, 0), 7, 9),
      MkPacket(100 * k + 2, 2027, Toc(31, 3), k, 9)>>

\* The last page of a tonie file: shorter than a full page ("short",
\* "short3"), or a full 4096 bytes with its last packet in code 3 ("full")
\* or code 3 and padded ("fullpadded").
LastKinds == {"short", "short3", "full", "fullpadded"}

LastPagePackets(k, kind) ==
    <<MkPacket(100 * k + 1, 2026, Toc(31, 0), 7, 9),
      CASE kind = "short"  -> MkPacket(100 * k + 2, 1990, Toc(29, 2), 10, 9)
        [] kind = "short3" -> MkPacket(100 * k + 2, 2013, Toc(31, 3), 2, 9)
        [] kind = "full"   -> MkPacket(100 * k + 2, 2027, Toc(31, 3), 2, 9)
        [] OTHER           -> MkPacket(100 * k + 2, 2027, Toc(31, 3), 66, 9)>>

SrcSegments(k, kind) ==
    IF k < 2 THEN <<[id |-> k + 1, len |-> 19, head |-> <<79, 112, 117>>]>>
    ELSE IF k = SrcAudioPages + 1 THEN set_opus_packets(LastPagePackets(k, kind))
    ELSE set_opus_packets(FullPagePackets(k))

RECURSIVE SrcGranule(_, _)
SrcGranule(k, kind) ==
    IF k < 2 THEN 0
    ELSE SrcGranule(k - 1, kind) + get_duration(SrcSegments(k, kind)).duration

SrcInfo(k, kind, segments) ==
    update_checksum([version |-> 0,
                     page_type |-> IF k = 0 THEN 2
                                   ELSE IF k = SrcAudioPages + 1 THEN 4 ELSE 0,
                     granule_position |-> SrcGranule(k, kind),
                     serial_no |-> Timestamp,
                     page_no |-> k,
                     checksum |-> 0,
                     segment_count |-> 0],
                    segments)

RECURSIVE SortedSeq(_)
SortedSeq(S) ==
    IF S = {} THEN <<>>
    ELSE LET m == CHOOSE x \in S : \A y \in S : x <= y
         IN <<m>> \o SortedSeq(S \ {m})

\* chapterPages of a source file: chapter 0 starts at page 0, the others at
\* audio pages after page 2.
StartLists == {<<0>> \o SortedSeq(S) : S \in SUBSET (3..(SrcAudioPages + 1))}

SourceFile(starts, kind) ==
    [chapterPages |-> starts,
     timestamp |-> Timestamp,
     pages |-> [i \in 1..(SrcAudioPages + 2) |->
                  Let(SrcSegments(i - 1, kind), LAMBDA segs :
                      [info |-> SrcInfo(i - 1, kind, segs), segments |-> segs])]]

SourceFiles == {SourceFile(st, kind) : st \in StartLists, kind \in LastKinds}

\* ------------------------------------------------------------- state
VARIABLES
    cmd,                  \* the command run: "export", "skip", "swap", the
                          \* script "skip.py", or "compose" called by itself
    pc,                   \* where the command is
    err,                  \* the exception that ended it ("" while none)
    F,                    \* the source tonie file
    infos,                \* heap of page-header lists (OggPage.info)
    pages,                \* tonie_audio.pages: [info (a heap ref), segments]
    chapter_start_pages,  \* tonie_audio.header.chapter_start_pages
    ap,                   \* locals of append_chapter
    chapter_nums,         \* swap: the chapter numbers append_chapter returned
    opus_counts,          \* per appended chapter, the packets its file held
    pad,                  \* the last pad_page call of append_chapter
    co,                   \* locals of compose
    out_file,             \* the file compose writes
    exp_i                 \* export: chapters handed to compose so far

vars == <<cmd, pc, err, F, infos, pages, chapter_start_pages, ap, chapter_nums,
          opus_counts, pad, co, out_file, exp_i>>

NoAppend == [active |-> FALSE]

NoPad == [called |-> FALSE]

NoCompose == [active |-> FALSE]

NoHeader == [written |-> FALSE]

EmptyFile == [pos |-> 0, placeholder |-> 0, pages |-> <<>>, header |-> NoHeader]

Init ==
    /\ cmd \in {"export", "skip", "swap", "skip.py", "compose"}
    /\ pc = "start"
    /\ err = ""
    /\ F \in SourceFiles
    /\ infos = <<>>
    /\ pages = <<>>
    /\ chapter_start_pages = <<>>
    /\ ap = NoAppend
    /\ chapter_nums = <<>>
    /\ opus_counts = <<>>
    /\ pad = NoPad
    /\ co = NoCompose
    /\ out_file = EmptyFile
    /\ exp_i = 0

\* An exception ends the command.
Fail(e) == pc' = "failed" /\ err' = e

\* ----------------------------------------------------------- parse_tonie
\* parse_ogg asserts that every page carries its index as page_no.
PageNosInOrder(ps) == \A i \in 1..Len(ps) : ps[i].info.page_no = i - 1

\* parse_tonie without the padding of the last page: the page stays as read.
PadLastPageSkipped(info, segments) ==
    [err |-> "ok", segments |-> segments, info |-> info]

\* The padding of the last page (audio.py 229-236): err, and the last page's
\* segments and info afterwards.
PadLastPage(info, segments) ==
    Let(get_opus_packets(segments), LAMBDA packets :
    Let(repack_packet(Last(packets)), LAMBDA r1 :
        IF r1.err # "ok" THEN [err |-> r1.err, segments |-> segments, info |-> info]
        ELSE
    Let(SetLast(packets, r1.packet), LAMBDA p1 :
    Let(set_opus_packets(p1), LAMBDA s1 :
    Let(pad_packet(Last(p1), FALSE, missing_bytes(s1)), LAMBDA r2 :
        IF r2.err # "ok" THEN [err |-> r2.err, segments |-> s1, info |-> info]
        ELSE
    Let(set_opus_packets(SetLast(p1, r2.packet)), LAMBDA s2 :
        IF missing_bytes(s2) # 0
        THEN [err |-> "AssertionError", segments |-> s2, info |-> info]
        ELSE [err |-> "ok", segments |-> s2, info |-> update_checksum(info, s2)]))))))

parse_tonie ==
    /\ pc = "start"
    /\ cmd # "skip.py"
    /\ \E n \in {Len(F.pages)} :
       \E r \in {PadLastPage(F.pages[n].info, F.pages[n].segments)} :
          /\ chapter_start_pages' = F.chapterPages
          /\ infos' = [i \in 1..n |-> IF i = n THEN r.info ELSE F.pages[i].info]
          /\ pages' = [i \in 1..n |->
                         [info |-> i,
                          segments |-> IF i = n THEN r.segments ELSE F.pages[i].segments]]
          /\ IF ~PageNosInOrder(F.pages) THEN Fail("AssertionError")
             ELSE IF r.err # "ok" THEN Fail(r.err)
             ELSE pc' = "parsed" /\ err' = ""
    /\ UNCHANGED <<cmd, F, ap, chapter_nums, opus_counts, pad, co, out_file, exp_i>>

\* -------------------------------------------------------- append_chapter
\* The packets of source page i of the incoming file.
OpusPackets(opus, i) == get_opus_packets(opus[i].segments)

\* Whether the loops of append_chapter have a packet left at (i, j).
HasPacket(a) == a.i <= Len(a.opus)

\* for src_page in src_pages[2:]: for packet in src_page.get_opus_packets()
Advance(a) ==
    IF a.j < Len(OpusPackets(a.opus, a.i))
    THEN [a EXCEPT !.j = a.j + 1]
    ELSE [a EXCEPT !.i = a.i + 1, !.j = 1]

RECURSIVE CountPackets(_, _)
CountPackets(opus, i) ==
    IF i > Len(opus) THEN 0
    ELSE Len(OpusPackets(opus, i)) + CountPackets(opus, i + 1)

\* audio.py 278-288: swap calls append_chapter on the next Opus file.
append_chapter_begin ==
    /\ pc = "parsed"
    /\ cmd = "swap"
    /\ Len(chapter_nums) < MaxAppends
    /\ \E opus \in OpusFiles(Len(chapter_nums) + 1) :
            /\ chapter_start_pages' = Append(chapter_start_pages, Len(pages))
            /\ IF \E n \in 1..Len(opus) : opus[n].page_no # n - 1
               THEN Fail("AssertionError") /\ ap' = NoAppend
               ELSE /\ pc' = "append"
                    /\ err' = ""
                    /\ ap' = [active |-> TRUE,
                              opus |-> opus,
                              i |-> 3,
                              j |-> 1,
                              new_chapter_num |-> Len(chapter_start_pages),
                              next_page_num |-> Len(pages),
                              last |-> Last(pages).info,
                              granule_position |->
                                  infos[Last(pages).info].granule_position,
                              next_page_packets |-> <<>>,
                              next_page_size |-> 27,
                              next_page_seg_count |-> 0]
    /\ UNCHANGED <<cmd, F, infos, pages, chapter_nums, opus_counts, pad, co,
                   out_file, exp_i>>

\* audio.py 297-307: close the page built from the working set.  dst_page
\* is OggPage(last_page.info): it shares the info list of the last page.
ClosePage(a) ==
    Let(pad_page(a.next_page_packets), LAMBDA r :
    Let(get_duration(r.segments), LAMBDA d :
    Let([infos[a.last] EXCEPT !.page_no = a.next_page_num], LAMBDA numbered :
    Let([numbered EXCEPT !.granule_position = a.granule_position + d.duration],
        LAMBDA stamped :
    Let(IF r.err # "ok" THEN r.err
        ELSE IF d.err # "ok" THEN d.err
        ELSE IF Len(r.segments) > 255 THEN "struct.error"
        ELSE "ok", LAMBDA failure :
        [err |-> failure,
         pad |-> [called |-> TRUE, packets |-> a.next_page_packets,
                  err |-> r.err, step |-> r.step, segments |-> r.segments],
         info |-> IF r.err # "ok" THEN numbered
                  ELSE IF failure # "ok" THEN stamped
                  ELSE update_checksum(stamped, r.segments),
         segments |-> r.segments,
         a |-> [a EXCEPT !.granule_position = a.granule_position + d.duration,
                         !.next_page_num = a.next_page_num + 1,
                         !.next_page_packets = <<>>,
                         !.next_page_size = 27,
                         !.next_page_seg_count = 0]])))))

\* audio.py 309-311
AddPacket(a, packet, added_size) ==
    [a EXCEPT !.next_page_packets = Append(a.next_page_packets, packet),
              !.next_page_seg_count = a.next_page_seg_count + Len(packet),
              !.next_page_size = a.next_page_size + added_size]

\* audio.py 291-311: one iteration of the packet loop.
append_chapter_packet ==
    /\ pc = "append"
    /\ HasPacket(ap)
    /\ \E packet \in {OpusPackets(ap.opus, ap.i)[ap.j]} :
       \E added_size \in {Len(packet) + SumLen(packet)} :
          IF ~(27 + added_size < PAGE_SIZE)
          THEN Fail("AssertionError") /\ UNCHANGED <<infos, pages, ap, pad>>
          ELSE IF ~(\/ ap.next_page_size + added_size > PAGE_SIZE
                    \/ ap.next_page_seg_count + Len(packet) > 255)
          THEN /\ ap' = Advance(AddPacket(ap, packet, added_size))
               /\ UNCHANGED <<pc, err, infos, pages, pad>>
          ELSE \E c \in {ClosePage(ap)} :
               /\ pad' = c.pad
               /\ infos' = [infos EXCEPT ![ap.last] = c.info]
               /\ IF c.err # "ok"
                  THEN Fail(c.err) /\ UNCHANGED <<pages, ap>>
                  ELSE /\ pages' = Append(pages, [info |-> ap.last,
                                                  segments |-> c.segments])
                       /\ ap' = Advance(AddPacket(c.a, packet, added_size))
                       /\ UNCHANGED <<pc, err>>
    /\ UNCHANGED <<cmd, F, chapter_start_pages, chapter_nums, opus_counts, co,
                   out_file, exp_i>>

\* audio.py 313 and tonie/__init__.py 68-69: the loops are over; the working
\* set is dropped with the other locals.
append_chapter_return ==
    /\ pc = "append"
    /\ ~HasPacket(ap)
    /\ pc' = "parsed"
    /\ chapter_nums' = Append(chapter_nums, ap.new_chapter_num)
    /\ opus_counts' = Append(opus_counts, CountPackets(ap.opus, 3))
    /\ ap' = NoAppend
    /\ pad' = NoPad
    /\ UNCHANGED <<cmd, err, F, infos, pages, chapter_start_pages, co, out_file,
                   exp_i>>

\* ---------------------------------------------------------------- compose
\* TonieAudio.get_chapter_page_nums; err is "IndexError" when chapter_num is
\* no index of chapter_start_pages.
get_chapter_page_nums(start_page_nums, page_count, chapter_num) ==
    IF chapter_num + 1 > Len(start_page_nums)
    THEN [err |-> "IndexError", page_nums |-> <<>>]
    ELSE LET start_num == start_page_nums[chapter_num + 1]
             end_num == IF chapter_num + 1 < Len(start_page_nums)
                        THEN start_page_nums[chapter_num + 2]
                        ELSE page_count
         IN [err |-> "ok", page_nums |-> RangeSeq(start_num, end_num)]

\* audio.py 413-425: compose starts; nums_is_none is chapter_nums is None.
ComposeBegin(nums_is_none, nums, add_header) ==
    /\ pc' = "compose"
    /\ co' = [active |-> TRUE,
              chapter_nums |-> IF nums_is_none
                               THEN RangeSeq(0, Len(chapter_start_pages))
                               ELSE nums,
              add_header |-> add_header,
              ci |-> 0,
              page_nums |-> <<>>,
              pi |-> 0,
              granule_position |-> 0,
              next_page_num |-> 0,
              first |-> TRUE,
              output_chapter_page_nums |-> <<>>,
              sha1 |-> 0]
    /\ out_file' = IF add_header
                   THEN [EmptyFile EXCEPT !.pos = PAGE_SIZE, !.placeholder = PAGE_SIZE]
                   ELSE EmptyFile

\* Chapter lists of the skip command: chapter numbers of the tonie.
ChapterLists(count) == UNION {[1..n -> 0..(count - 1)] : n \in 1..MaxList}

\* tonie/__init__.py 25-45
skip ==
    /\ pc = "parsed"
    /\ cmd = "skip"
    /\ \E nums \in ChapterLists(Len(chapter_start_pages)) :
         ComposeBegin(FALSE, nums, TRUE)
    /\ UNCHANGED <<cmd, err, F, infos, pages, chapter_start_pages, ap,
                   chapter_nums, opus_counts, pad, exp_i>>

\* audio.py 408-415: compose called with its defaults, chapter_nums = None
\* and add_header = True.
compose_all ==
    /\ pc = "parsed"
    /\ cmd = "compose"
    /\ ComposeBegin(TRUE, <<>>, TRUE)
    /\ UNCHANGED <<cmd, err, F, infos, pages, chapter_start_pages, ap,
                   chapter_nums, opus_counts, pad, exp_i>>

\* tonie/__init__.py 71-74
swap ==
    /\ pc = "parsed"
    /\ cmd = "swap"
    /\ ComposeBegin(FALSE, chapter_nums, TRUE)
    /\ UNCHANGED <<cmd, err, F, infos, pages, chapter_start_pages, ap,
                   chapter_nums, opus_counts, pad, exp_i>>

\* tonie/__init__.py 19-23: the loop runs over the values of
\* chapter_start_pages and hands each to compose as a chapter number.
export ==
    /\ pc \in {"parsed", "composed"}
    /\ cmd = "export"
    /\ exp_i < Len(chapter_start_pages)
    /\ exp_i' = exp_i + 1
    /\ ComposeBegin(FALSE, <<chapter_start_pages[exp_i + 1]>>, FALSE)
    /\ UNCHANGED <<cmd, err, F, infos, pages, chapter_start_pages, ap,
                   chapter_nums, opus_counts, pad>>

\* audio.py 427-433: the head of the chapter loop.
compose_chapter ==
    /\ pc = "compose"
    /\ co.ci < Len(co.chapter_nums)
    /\ \E chapter_num \in {co.chapter_nums[co.ci + 1]} :
       \E r \in {get_chapter_page_nums(chapter_start_pages, Len(pages), chapter_num)} :
       \E page_nums \in {IF co.first /\ chapter_num > 0
                         THEN <<0, 1, 2>> \o r.page_nums
                         ELSE r.page_nums} :
       \E listed \in {[co EXCEPT !.output_chapter_page_nums =
                                    Append(co.output_chapter_page_nums, co.next_page_num)]} :
          IF r.err # "ok"
          THEN Fail(r.err) /\ co' = listed
          ELSE /\ err' = ""
               /\ IF page_nums = <<>>
                  THEN /\ pc' = "compose"
                       /\ co' = [listed EXCEPT !.first = FALSE, !.ci = co.ci + 1,
                                               !.page_nums = page_nums, !.pi = 0]
                  ELSE /\ pc' = "compose_pages"
                       /\ co' = [listed EXCEPT !.first = FALSE,
                                               !.page_nums = page_nums, !.pi = 0]
    /\ UNCHANGED <<cmd, F, infos, pages, chapter_start_pages, ap, chapter_nums,
                   opus_counts, pad, out_file, exp_i>>

\* out_file.write(page_data): src is the index in tonie_audio.pages of the
\* page the bytes were made from.
WritePage(file, page_data, src) ==
    [file EXCEPT !.pages = Append(file.pages, [info |-> page_data.info,
                                               segments |-> page_data.segments,
                                               src |-> src]),
                 !.pos = file.pos + get_size(page_data.segments)]

\* audio.py 435-446: one iteration of the page loop.
compose_page ==
    /\ pc = "compose_pages"
    /\ \E page_num \in {co.page_nums[co.pi + 1]} :
          IF ~(page_num < Len(pages))
          THEN Fail("IndexError") /\ UNCHANGED <<co, out_file>>
          ELSE
       \E page \in {pages[page_num + 1]} :
       \E d \in {get_duration(page.segments)} :
          IF page_num >= 2 /\ d.err # "ok"
          THEN Fail(d.err) /\ UNCHANGED <<co, out_file>>
          ELSE IF page_num >= 2 /\ Len(page.segments) > 255
          THEN Fail("struct.error") /\ UNCHANGED <<co, out_file>>
          ELSE
       \E granule_position \in {IF page_num < 2 THEN co.granule_position
                                ELSE co.granule_position + d.duration} :
       \E page_data \in {IF page_num < 2
                         THEN [info |-> infos[page.info], segments |-> page.segments]
                         ELSE serialize_with(infos[page.info], page.segments,
                                             page_num = Last(co.page_nums),
                                             granule_position, co.next_page_num)} :
       \E done \in {co.pi + 1 = Len(co.page_nums)} :
               /\ out_file' = WritePage(out_file, page_data, page_num)
               /\ co' = [co EXCEPT !.granule_position = granule_position,
                                   !.sha1 = sha1_update(co.sha1,
                                              serialize(page_data.info, page_data.segments)),
                                   !.next_page_num = co.next_page_num + 1,
                                   !.pi = IF done THEN 0 ELSE co.pi + 1,
                                   !.ci = IF done THEN co.ci + 1 ELSE co.ci]
               /\ pc' = IF done THEN "compose" ELSE "compose_pages"
               /\ err' = ""
    /\ UNCHANGED <<cmd, F, infos, pages, chapter_start_pages, ap, chapter_nums,
                   opus_counts, pad, exp_i>>

\* The length of a varint on the wire.
VarintLen(n) == IF n < 128 THEN 1 ELSE IF n < 128 * 128 THEN 2 ELSE 3

RECURSIVE SumVarints(_)
SumVarints(ns) == IF ns = <<>> THEN 0 ELSE VarintLen(Head(ns)) + SumVarints(Tail(ns))

\* len(tonie_header.SerializeToString()) for a header whose padding field
\* holds pad_len bytes: dataHash (20 bytes), dataLength, timestamp, the
\* packed chapterPages and padding, each behind a one-byte tag.
HeaderLen(h, pad_len) ==
    22 + (1 + VarintLen(h.dataLength)) + (1 + VarintLen(h.timestamp))
       + (IF h.chapterPages = <<>> THEN 0
          ELSE 1 + VarintLen(SumVarints(h.chapterPages)) + SumVarints(h.chapterPages))
       + (IF pad_len = 0 THEN 0 ELSE 1 + VarintLen(pad_len) + pad_len)

\* The header with dataLength taken as the file position, the header slot
\* not subtracted.
TonieHeaderWithSlot(digest, position, timestamp, chapterPages) ==
    [written |-> TRUE,
     dataHash |-> digest,
     dataLength |-> position,
     timestamp |-> timestamp,
     chapterPages |-> chapterPages,
     padding |-> 0,
     bytes |-> PAGE_SIZE]

\* audio.py 448-463: the header written at offset 0, with the number of
\* bytes the write covers.
TonieHeaderOf(digest, position, timestamp, chapterPages) ==
    Let([dataHash |-> digest,
         dataLength |-> position - PAGE_SIZE,
         timestamp |-> timestamp,
         chapterPages |-> chapterPages], LAMBDA h :
    Let(4092 - HeaderLen(h, 256) + 256, LAMBDA pad_len :
        [written |-> TRUE,
         dataHash |-> h.dataHash,
         dataLength |-> h.dataLength,
         timestamp |-> h.timestamp,
         chapterPages |-> h.chapterPages,
         padding |-> pad_len,
         bytes |-> 4 + HeaderLen(h, pad_len)]))

\* audio.py 448-465: the chapter loop is over.
compose_finish ==
    /\ pc = "compose"
    /\ co.ci = Len(co.chapter_nums)
    /\ pc' = "composed"
    /\ out_file' = IF co.add_header
                   THEN [out_file EXCEPT !.header =
                           TonieHeaderOf(co.sha1, out_file.pos, F.timestamp,
                                         co.output_chapter_page_nums)]
                   ELSE out_file
    /\ UNCHANGED <<cmd, err, F, infos, pages, chapter_start_pages, ap,
                   chapter_nums, opus_counts, pad, co, exp_i>>

\* ---------------------------------------------------------------- skip.py
\* skip.py 36-44: the header with granule position, page number and
\* checksum replaced.
adjust_page_header(info, segments, granule_position, page_num) ==
    Let([info EXCEPT !.granule_position = granule_position,
                     !.page_no = page_num,
                     !.checksum = 0], LAMBDA modified_header :
        [modified_header EXCEPT !.checksum = crc32(serialize(modified_header, segments))])

\* skip.py 59 and 74-80: the chapter (from 1) a page belongs to; the pages
\* listed in chapterPages open a chapter.
ChapterOfPage(chapterPages, page_num) ==
    Let(CHOOSE q \in 0..page_num :
            /\ \E i \in 1..Len(chapterPages) : chapterPages[i] = q
            /\ \A r \in (q + 1)..page_num :
                   \A i \in 1..Len(chapterPages) : chapterPages[i] # r,
        LAMBDA q : CHOOSE i \in 1..Len(chapterPages) :
                       /\ chapterPages[i] = q
                       /\ \A j \in (i + 1)..Len(chapterPages) : chapterPages[j] # q)

\* skip.py 108-113: chapter_pages[chapter_num], as indices of the source
\* pages after the two header pages.
ScriptChapterPages(file, chapter_num) ==
    SelectSeq(RangeSeq(2, Len(file.pages)),
              LAMBDA k : ChapterOfPage(file.chapterPages, file.pages[k + 1].info.page_no)
                         = chapter_num)

\* skip.py 126-132, 151-157 and 166-173: the pages of list written from
\* list[i] on; w holds the file, the digest, the granule position and the
\* next page number.
RECURSIVE ScriptWrite(_, _, _, _)
ScriptWrite(file, list, i, w) ==
    IF i > Len(list) THEN w
    ELSE Let(file.pages[list[i] + 1], LAMBDA page :
         Let(w.granule_position + get_duration(page.segments).duration, LAMBDA g :
         Let([info |-> adjust_page_header(page.info, page.segments, g, w.next_page_num),
              segments |-> page.segments], LAMBDA page_data :
             ScriptWrite(file, list, i + 1,
                 [out |-> WritePage(w.out, page_data, list[i]),
                  sha1 |-> sha1_update(w.sha1, serialize(page_data.info,
                                                         page_data.segments)),
                  granule_position |-> g,
                  next_page_num |-> w.next_page_num + 1]))))

\* skip.py 144-145: the two header pages, written as they were read.
ScriptPrefix(file, out) ==
    WritePage(WritePage(out, file.pages[1], 0), file.pages[2], 1)

\* skip.py 118-132: the file chapter<N>.ogg of one chapter.
ScriptExport(file, chapter_num) ==
    ScriptWrite(file, ScriptChapterPages(file, chapter_num), 1,
                [out |-> ScriptPrefix(file, EmptyFile), sha1 |-> 0,
                 granule_position |-> 0, next_page_num |-> 2]).out

\* skip.py 160-173: the chapter loop from output_chapter_nums[k] on; w also
\* holds output_chapter_page_nums.
RECURSIVE ScriptChapters(_, _, _, _)
ScriptChapters(file, output_chapter_nums, k, w) ==
    IF k > Len(output_chapter_nums) THEN w
    ELSE Let(ScriptWrite(file, ScriptChapterPages(file, output_chapter_nums[k]), 1,
                         [out |-> w.out, sha1 |-> w.sha1,
                          granule_position |-> w.granule_position,
                          next_page_num |-> w.next_page_num]), LAMBDA v :
             ScriptChapters(file, output_chapter_nums, k + 1,
                 [out |-> v.out, sha1 |-> v.sha1,
                  granule_position |-> v.granule_position,
                  next_page_num |-> v.next_page_num,
                  output_chapter_page_nums |->
                      Append(w.output_chapter_page_nums, w.next_page_num)]))

\* skip.py 135-157: the placeholder, the header pages and, when the list
\* does not start with chapter 1, the first page of chapter 1.
ScriptStart(file, output_chapter_nums) ==
    Let([out |-> ScriptPrefix(file, [EmptyFile EXCEPT !.pos = PAGE_SIZE,
                                                      !.placeholder = PAGE_SIZE]),
         sha1 |-> sha1_update(0, serialize(file.pages[1].info, file.pages[1].segments)
                                 \o serialize(file.pages[2].info, file.pages[2].segments)),
         granule_position |-> 0,
         next_page_num |-> 2], LAMBDA w :
        IF output_chapter_nums[1] # 1
        THEN ScriptWrite(file, SubSeq(ScriptChapterPages(file, 1), 1, 1), 1, w)
        ELSE w)

\* Chapter lists of the script: chapter numbers from 1.
ScriptLists(count) == UNION {[1..n -> 1..count] : n \in 1..MaxList}

\* skip.py 49-192: the whole script.  The header takes output_chapter_nums
\* as its chapterPages (line 180).
skip_script ==
    /\ pc = "start"
    /\ cmd = "skip.py"
    /\ \E output_chapter_nums \in ScriptLists(Len(F.chapterPages)) :
       \E s \in {ScriptStart(F, output_chapter_nums)} :
       \E w \in {ScriptChapters(F, output_chapter_nums, 1,
                     [out |-> s.out, sha1 |-> s.sha1,
                      granule_position |-> s.granule_position,
                      next_page_num |-> s.next_page_num,
                      output_chapter_page_nums |-> <<>>])} :
          /\ pc' = "composed"
          /\ co' = [active |-> FALSE,
                    output_chapter_nums |-> output_chapter_nums,
                    output_chapter_page_nums |-> w.output_chapter_page_nums,
                    exports |-> [c \in 1..Len(F.chapterPages) |->
                                    ScriptExport(F, c).pages]]
          /\ out_file' = [w.out EXCEPT !.header =
                             TonieHeaderOf(w.sha1, w.out.pos, F.timestamp,
                                           output_chapter_nums)]
    /\ UNCHANGED <<cmd, err, F, infos, pages, chapter_start_pages, ap,
                   chapter_nums, opus_counts, pad, exp_i>>

Next ==
    \/ parse_tonie
    \/ append_chapter_begin
    \/ append_chapter_packet
    \/ append_chapter_return
    \/ skip
    \/ swap
    \/ compose_all
    \/ export
    \/ compose_chapter
    \/ compose_page
    \/ compose_finish
    \/ skip_script

Spec == Init /\ [][Next]_vars

\* ------------------------------------------------- pad_packet on its own
\* pad_packet applied to the last packet of a page, as pad_page does in
\* audio.py 338-339, for packets in code 3 without padding of 3..MaxDataLen
\* bytes and pad_len in 1..MaxPadLen.
NoSource == [pages |-> <<>>]

PadInit ==
    /\ cmd = "pad_packet"
    /\ pc = "input"
    /\ err = ""
    /\ F = NoSource
    /\ infos = <<>>
    /\ pages = <<>>
    /\ chapter_start_pages = <<>>
    /\ ap = NoAppend
    /\ chapter_nums = <<>>
    /\ opus_counts = <<>>
    /\ \E n \in 3..MaxDataLen, pad_len \in 1..MaxPadLen :
           pad = [called |-> FALSE,
                  packets |-> <<MkPacket(1, n, Toc(31, 3), 1, 9)>>,
                  pad_len |-> pad_len]
    /\ co = NoCompose
    /\ out_file = EmptyFile
    /\ exp_i = 0

\* audio.py 338-339: packets[-1] = pad_packet(packets[-1], missing_bytes),
\* then page.set_opus_packets(packets).  pad_lengths are the bytes found
\* after data[:2] in front of the former data[2:], zeros the bytes found
\* behind the former data.
pad_last_packet ==
    /\ cmd = "pad_packet"
    /\ pc = "input"
    /\ \E packet \in {Last(pad.packets)} :
       \E r \in {pad_packet(packet, FALSE, pad.pad_len)} :
       \E inserted \in {Len(r.packet[1].head) - Len(packet[1].head)} :
          /\ pad' = [called |-> TRUE,
                     packets |-> pad.packets,
                     pad_len |-> pad.pad_len,
                     err |-> r.err,
                     pre_size |-> get_size(set_opus_packets(pad.packets)),
                     segments |-> set_opus_packets(SetLast(pad.packets, r.packet)),
                     pad_lengths |-> SubSeq(r.packet[1].head, 3, 2 + inserted),
                     zeros |-> SumLen(r.packet) - SumLen(packet) - inserted]
          /\ pc' = IF r.err = "ok" THEN "done" ELSE "failed"
          /\ err' = IF r.err = "ok" THEN "" ELSE r.err
    /\ UNCHANGED <<cmd, F, infos, pages, chapter_start_pages, ap, chapter_nums,
                   opus_counts, co, out_file, exp_i>>

PadNext == pad_last_packet

PadSpec == PadInit /\ [][PadNext]_vars

\* ================================================================ claims
\* A finished run of compose (export, skip, swap, or compose by itself).
Composed == pc = "composed" /\ cmd # "skip.py"

\* The pages written to the output, in emission order.
Emitted == out_file.pages

\* The bytes written after the header slot, in emission order.
PayloadBytes == Flat([i \in 1..Len(Emitted) |->
                        serialize(Emitted[i].info, Emitted[i].segments)])

RECURSIVE SizesFrom(_, _)
SizesFrom(ps, i) ==
    IF i > Len(ps) THEN 0 ELSE get_size(ps[i].segments) + SizesFrom(ps, i + 1)

\* The ids of the Opus packets a segment list carries, in order.
PacketIds(segments) ==
    Let(get_opus_packets(segments), LAMBDA ps :
        IF segments = <<>> THEN <<>> ELSE [k \in 1..Len(ps) |-> ps[k][1].id])

\* The source pages of chapter c that carry audio.
AudioPagesOf(c) ==
    SelectSeq(get_chapter_page_nums(chapter_start_pages, Len(pages), c).page_nums,
              LAMBDA n : n >= 2)

\* C1: whenever append_chapter closes a page on a working set W of one or
\* more packets whose serialized size is at most PAGE_SIZE, pad_page returns
\* without an exception and the page serializes to exactly PAGE_SIZE bytes.
C1_PadPageSucceeds ==
    (/\ pad.called
     /\ Len(pad.packets) >= 1
     /\ get_size(Flat(pad.packets)) <= PAGE_SIZE)
    => (pad.err = "ok" /\ get_size(pad.segments) = PAGE_SIZE)

\* C2: in every file compose finishes writing, every emitted page with
\* page_no >= 2 serializes to exactly PAGE_SIZE bytes.
C2_AudioPagesFillThePage ==
    Composed =>
        \A i \in 1..Len(Emitted) :
            Emitted[i].info.page_no >= 2 => get_size(Emitted[i].segments) = PAGE_SIZE

\* A swap has finished whose output holds a page that append_chapter built,
\* next to the padded last page of the source.
C2_Witness ==
    /\ Composed
    /\ cmd = "swap"
    /\ \E i \in 1..Len(Emitted) :
           Emitted[i].src >= Len(F.pages) /\ Emitted[i].info.page_no >= 2
    /\ get_size(F.pages[Len(F.pages)].segments) < PAGE_SIZE

\* C3: the end-of-stream flag (page_type = 4) is on the final emitted audio
\* page of the output and on no page emitted before it.
C3_EndOfStreamOnFinalPageOnly ==
    Composed =>
        \A i \in 1..Len(Emitted) :
            (Emitted[i].info.page_type = 4)
                <=> (/\ Emitted[i].src >= 2
                     /\ \A j \in (i + 1)..Len(Emitted) : Emitted[j].src < 2)

\* C4: in a file written with add_header, dataHash is the digest of the
\* bytes written after the header slot, in emission order, dataLength is
\* their number, and the header written at offset 0 stays inside the slot.
C4_HeaderDescribesPayload ==
    (Composed /\ out_file.header.written) =>
        /\ out_file.header.dataHash = sha1_update(0, PayloadBytes)
        /\ out_file.header.dataLength = SizesFrom(Emitted, 1)
        /\ out_file.pos = PAGE_SIZE + SizesFrom(Emitted, 1)
        /\ out_file.placeholder = PAGE_SIZE
        /\ out_file.header.bytes <= PAGE_SIZE

\* A skip over two chapters has finished and written its header.
C4_Witness ==
    /\ Composed
    /\ cmd = "skip"
    /\ out_file.header.written
    /\ Len(co.chapter_nums) = 2
    /\ Len(Emitted) >= 4

\* C5: parse_tonie followed by compose over all chapters writes the source
\* file again: the same pages with the same contents, the same dataLength,
\* timestamp and chapterPages.
C5_RoundTrip ==
    (Composed /\ cmd = "compose") =>
        /\ Len(Emitted) = Len(F.pages)
        /\ \A i \in 1..Len(Emitted) :
               i <= Len(F.pages) =>
                   /\ Emitted[i].info = F.pages[i].info
                   /\ Emitted[i].segments = F.pages[i].segments
        /\ out_file.header.dataLength = SizesFrom(F.pages, 1)
        /\ out_file.header.timestamp = F.timestamp
        /\ out_file.header.chapterPages = F.chapterPages

\* C6: after a swap, the packets carried by the emitted pages of each new
\* chapter are the packets of pages 2..end of its Opus file, each once and
\* in order.
C6_PacketsConserved ==
    (Composed /\ cmd = "swap") =>
        \A a \in 1..Len(chapter_nums) :
            Flat([i \in 1..Len(AudioPagesOf(chapter_nums[a])) |->
                    PacketIds(SelectSeq(Emitted,
                        LAMBDA e : e.src = AudioPagesOf(chapter_nums[a])[i])[1].segments)])
            = [i \in 1..opus_counts[a] |-> 1000 * a + i]

\* C7: the i-th page written to the output (from 0) carries page_no = i.
C7_PageNumbersAscend ==
    Composed => \A i \in 1..Len(Emitted) : Emitted[i].info.page_no = i - 1

\* C8: granule_position never decreases along the emitted pages, and from
\* output position 2 on it is the previous page's value plus the duration of
\* the page.
C8_GranuleAdvancesByDuration ==
    Composed =>
        \A i \in 2..Len(Emitted) :
            /\ Emitted[i].info.granule_position >= Emitted[i - 1].info.granule_position
            /\ i >= 3 =>
                   Emitted[i].info.granule_position =
                       Emitted[i - 1].info.granule_position
                       + get_duration(Emitted[i].segments).duration

\* C9: export runs compose once per chapter index k of the tonie; each run
\* ends without an exception and writes, with no header slot, the two header
\* pages as they are and then the pages of chapter k and no others,
\* numbered from 2.
C9_ExportWritesEachChapter ==
    (cmd = "export" /\ exp_i >= 1) =>
        /\ pc # "failed"
        /\ co.chapter_nums = <<exp_i - 1>>
        /\ pc = "composed" =>
               /\ ~out_file.header.written
               /\ out_file.placeholder = 0
               /\ [i \in 1..Len(Emitted) |-> Emitted[i].src]
                      = <<0, 1>> \o AudioPagesOf(exp_i - 1)
               /\ \A i \in 1..Len(Emitted) :
                      /\ Emitted[i].info.page_no = i - 1
                      /\ Emitted[i].segments = pages[Emitted[i].src + 1].segments
                      /\ i <= 2 => Emitted[i].info = infos[pages[i].info]

\* The chapter list of a finished skip, as given to it.
SkipList == IF cmd = "skip.py" THEN co.output_chapter_nums ELSE co.chapter_nums

\* The source pages of the k-th listed chapter that the skip writes for it.
SkipPagesOf(k) ==
    IF cmd = "skip.py" THEN ScriptChapterPages(F, SkipList[k])
    ELSE IF k = 1 /\ SkipList[1] > 0 THEN AudioPagesOf(SkipList[1])
    ELSE get_chapter_page_nums(chapter_start_pages, Len(pages), SkipList[k]).page_nums

\* The pages written ahead of the first listed chapter.
SkipLead ==
    IF cmd = "skip.py" THEN (IF SkipList[1] # 1 THEN 3 ELSE 2)
    ELSE IF SkipList[1] > 0 THEN 3 ELSE 0

RECURSIVE SkipStart(_)
SkipStart(k) == IF k = 1 THEN SkipLead ELSE SkipStart(k - 1) + Len(SkipPagesOf(k - 1))

\* C10: the header a skip with chapter list C writes has len(C) chapterPages
\* entries, and entry k is the page number in the output at which the pages
\* of chapter C[k] start.
C10_ChapterPagesAreOutputStarts ==
    (pc = "composed" /\ cmd \in {"skip", "skip.py"}) =>
        /\ Len(out_file.header.chapterPages) = Len(SkipList)
        /\ \A k \in 1..Len(SkipList) :
               k <= Len(out_file.header.chapterPages) =>
                   out_file.header.chapterPages[k] = SkipStart(k)

\* The header and segments page i of the source has when parse_tonie
\* returns: as read, the last page padded.
ParsedPage(i) ==
    IF i < Len(F.pages) THEN F.pages[i]
    ELSE Let(PadLastPage(F.pages[i].info, F.pages[i].segments), LAMBDA r :
             [info |-> r.info, segments |-> r.segments])

\* C11: when append_chapter has returned, every page that was in
\* tonie_audio.pages before has the header fields and segments it had, and
\* every appended page holds header values of its own, its page_no being its
\* index in tonie_audio.pages.
C11_AppendLeavesPagesAlone ==
    (cmd = "swap" /\ pc = "parsed" /\ Len(chapter_nums) >= 1) =>
        /\ \A i \in 1..Len(F.pages) :
               /\ infos[pages[i].info] = ParsedPage(i).info
               /\ pages[i].segments = ParsedPage(i).segments
        /\ \A i \in (Len(F.pages) + 1)..Len(pages) :
               /\ infos[pages[i].info].page_no = i - 1
               /\ \A j \in 1..Len(pages) : j # i => pages[j].info # pages[i].info

\* C12: every page append_chapter builds has at most 255 segments when its
\* checksum is computed and it is appended: once pad_page has returned for
\* the working set, the segments it produced (packets converted to code 3,
\* padding bytes, an empty closing segment) number 255 or fewer.
C12_AtMost255Segments ==
    (pad.called /\ pad.err = "ok") => Len(pad.segments) <= 255

\* The padding a run of pad-length bytes announces: every byte adds its
\* value, a byte of 255 is followed by another one.
RECURSIVE PadAmount(_)
PadAmount(bs) == IF bs = <<>> THEN 0 ELSE bs[1] + PadAmount(Tail(bs))

\* C13: the padding delta is exact: for a code-3 packet without padding
\* that is the last packet of a page, of any length, and every pad_len >= 1,
\* pad_packet followed by the re-segmentation grows the serialized size of
\* the page (payload bytes plus segment-table entries, the empty closing
\* segment counted) by exactly pad_len, and the number of zero bytes
\* appended is the amount the inserted length bytes announce.
C13_PaddingDeltaExact ==
    (cmd = "pad_packet" /\ pad.called) =>
        /\ pad.err = "ok"
        /\ get_size(pad.segments) = pad.pre_size + pad.pad_len
        /\ pad.zeros = PadAmount(pad.pad_lengths)

=============================================================================
